---- MODULE Spec2Model ----
(***************************************************************************)
(* Model of the plant_ml dashboard front end: the wizard (plant, image,   *)
(* camera, detection) of static/js/dashboard.js and the location/weather   *)
(* handlers.  Every handler is one action; a handler that suspends at an   *)
(* await or registers a callback is one action per run-to-completion       *)
(* segment, with the suspended part kept in a "pending" variable.          *)
(***************************************************************************)
EXTENDS Integers, Sequences, FiniteSets, Bags, TLC

(* ------------------------------ bounds --------------------------------- *)
\* most startCamera calls suspended at getUserMedia at the same time
MaxPending == 2
\* most toBlob callbacks, and most FileReader loads of one file, outstanding
MaxCallbacks == 1
\* most media streams whose tracks run at the same time
MaxStreams == 2
\* most detection requests in flight at the same time
MaxDetect == 2
\* most lines of a disease-info text given to formatDiseaseInfo
MaxLines == 3
\* most geolocation lookups under way at the same time
MaxLookups == 1
\* most /api/weather requests in flight at the same time
MaxWeather == 2
\* most /api/crop-recommendation requests in flight at the same time
MaxCrop == 2
\* most /api/logout requests in flight at the same time
MaxLogout == 2

(* ------------------------------ values --------------------------------- *)
\* the initial value of selectedPlant (dashboard.js line 2)
NullPlant == "null"
\* the options of #plantSelect: the empty "no plant" option and the plants
Plants == {"tomato", "potato"}
PlantValues == {""} \cup Plants
\* JavaScript truthiness of a string-or-null value
Truthy(s) == s \notin {NullPlant, ""}

\* selectedImage: null or a File
NoImage == [src |-> "none", name |-> ""]
Files == {[src |-> "upload", name |-> "leaf.jpg"]}
\* new File([blob], `${selectedPlant}_${Date.now()}.jpg`, ...): the name is
\* read nowhere, and is kept out of the model
CapturedFile(plant) == [src |-> "capture", name |-> "capture.jpg"]

\* cameraStream: null or a MediaStream
NoStream == 0
Streams == 1..MaxStreams

\* the .camera-guide-text overlay is absent
NoGuide == "<none>"

\* #languageSelect options
Languages == {"en"}

\* innerHTML of #imagePreview
EmptyPreview == [label |-> "", img |-> "", plant |-> ""]
PreviewHTML(label, img, plant) == [label |-> label, img |-> img, plant |-> plant]

\* innerHTML of #resultDisplay
EmptyResult == [kind |-> "empty", heading |-> "", plant |-> "", badge |-> "",
                conf |-> 0, disease |-> "", info |-> <<>>, message |-> ""]
\* the fixed text of detectDisease's catch block
GenericDetectError == "Failed to detect disease. Please try again."
DetectErrorHTML == [kind |-> "result-error", heading |-> "Error", plant |-> "",
                    badge |-> "", conf |-> 0, disease |-> "", info |-> <<>>,
                    message |-> GenericDetectError]
\* a failure block that shows a fixed heading in place of the server's message
DetectFailureHTML_Generic(message, plant) ==
    [kind |-> "result-error", heading |-> "Error", plant |-> plant, badge |-> "",
     conf |-> 0, disease |-> "", info |-> <<>>,
     message |-> "Please try again with a clear image"]

\* the block of the  data.success  false branch
DetectFailureHTML(message, plant) ==
    [kind |-> "result-error", heading |-> message, plant |-> plant, badge |-> "",
     conf |-> 0, disease |-> "", info |-> <<>>,
     message |-> "Please try again with a clear image"]

(* -------------------------- formatDiseaseInfo -------------------------- *)
\* A text is a sequence of tokens: "\n", "**", "- " and words; the markup
\* the four replace() passes write is the tokens "<br>", "<strong>", ...

\* least index k >= i with s[k] = tok, 0 when there is none
IndexFrom(s, tok, i) ==
    LET hits == {k \in i..Len(s) : s[k] = tok}
    IN  IF hits = {} THEN 0 ELSE CHOOSE k \in hits : \A m \in hits : k <= m

\* greatest index k with s[k] = tok, 0 when there is none
LastIndex(s, tok) ==
    LET hits == {k \in 1..Len(s) : s[k] = tok}
    IN  IF hits = {} THEN 0 ELSE CHOOSE k \in hits : \A m \in hits : k >= m

\* info.replace(/\n/g, '<br>')
ReplaceNewlines(s) == [k \in 1..Len(s) |-> IF s[k] = "\n" THEN "<br>" ELSE s[k]]

\* formatted.replace(/\*\*(.*?)\*\*/g, '<strong>$1</strong>')
RECURSIVE ReplaceBold(_)
ReplaceBold(s) ==
    LET i == IndexFrom(s, "**", 1)
        j == IF i = 0 THEN 0 ELSE IndexFrom(s, "**", i + 1)
    IN  IF j = 0 THEN s
        ELSE SubSeq(s, 1, i - 1) \o <<"<strong>">> \o SubSeq(s, i + 1, j - 1)
             \o <<"</strong>">> \o ReplaceBold(SubSeq(s, j + 1, Len(s)))

\* formatted.replace(/- (.*?)<br>/g, '<li>$1</li>')
RECURSIVE ReplaceBullets(_)
ReplaceBullets(s) ==
    LET i == IndexFrom(s, "- ", 1)
        j == IF i = 0 THEN 0 ELSE IndexFrom(s, "<br>", i + 1)
    IN  IF j = 0 THEN s
        ELSE SubSeq(s, 1, i - 1) \o <<"<li>">> \o SubSeq(s, i + 1, j - 1)
             \o <<"</li>">> \o ReplaceBullets(SubSeq(s, j + 1, Len(s)))

\* formatted.replace(/(<li>.*<\/li>)+/g, '<ul>$1</ul>'): the greedy .* runs
\* from the first <li> to the last </li> of the text, so there is one match
WrapList(s) ==
    LET i == IndexFrom(s, "<li>", 1)
        j == LastIndex(s, "</li>")
    IN  IF i = 0 \/ j < i THEN s
        ELSE SubSeq(s, 1, i - 1) \o <<"<ul>">> \o SubSeq(s, i, j) \o <<"</ul>">>
             \o SubSeq(s, j + 1, Len(s))

formatDiseaseInfo(info) == WrapList(ReplaceBullets(ReplaceBold(ReplaceNewlines(info))))

VARIABLES
    selectedImage,      \* let selectedImage
    selectedPlant,      \* let selectedPlant
    cameraStream,       \* let cameraStream
    liveStreams,        \* acquired MediaStreams whose tracks have not been stopped
    pendingGetUserMedia,\* startCamera calls suspended at await getUserMedia
    pendingToBlob,      \* canvas.toBlob callbacks not yet run
    pendingReads,       \* FileReader.readAsDataURL loads not yet delivered, per file
    detectBtnDisabled,  \* #detectBtn.disabled
    imagePreview,       \* #imagePreview.innerHTML
    imageSection,       \* #imageUploadSection and #imageInput: "enabled" or "disabled"
    selectedPlantInfo,  \* #selectedPlantInfo: the plant shown, "" when hidden
    stepClasses,        \* the classes set on the three step indicators
    hasStep3,           \* whether the page markup holds #step3-indicator
    activeOption,       \* which of #uploadOption / #cameraOption is shown
    videoSrc,           \* #cameraVideo.srcObject
    cameraBtns,         \* display of start / capture / stop camera buttons
    guideText,          \* the .camera-guide-text overlay: "" when absent, else its plant
    loadingSpinner,     \* #loadingSpinner.style.display
    resultDisplay,      \* #resultDisplay.innerHTML
    detectInFlight,     \* the bag of detection requests sent and not yet answered
    cityInput,          \* #cityInput.value
    weatherDisplay,     \* #weatherDisplay.innerHTML
    temperature,        \* #temperature.value
    humidity,           \* #humidity.value
    rainfall,           \* #rainfall.value
    cropBtnDisabled,    \* #cropRecommendBtn.disabled
    cropDisplay,        \* #cropDisplay.innerHTML
    hasGeolocation,     \* whether navigator.geolocation exists
    geoPending,         \* getCurrentPosition requests not yet answered
    awaitingForecast,   \* position callbacks suspended at the forecast fetch
    awaitingGeocode,    \* position callbacks suspended at the geocoding fetch
    weatherInFlight,    \* the bag of /api/weather requests sent and not yet answered
    soilType,           \* #soilType.value
    cropInFlight,       \* the bag of /api/crop-recommendation requests not yet answered
    location,           \* window.location.href
    logoutInFlight,     \* /api/logout requests sent and not yet answered
    quietSinceSwitch,   \* switchToUpload has run and startCamera was not invoked since
    fmtInfo,            \* the text handed to formatDiseaseInfo
    fmtOut,             \* what formatDiseaseInfo returned
    fmtDone,            \* formatDiseaseInfo has returned
    pageUnloaded,       \* beforeunload has run
    lastOp,             \* the handler segment that ran last
    lastArg             \* the input (event, response) that segment was given

wizardVars == <<selectedImage, selectedPlant, detectBtnDisabled, imagePreview,
                imageSection, selectedPlantInfo, stepClasses, hasStep3,
                pendingToBlob, pendingReads, activeOption>>
cameraVars == <<cameraStream, liveStreams, videoSrc, cameraBtns, guideText,
                pendingGetUserMedia>>
detectVars == <<loadingSpinner, resultDisplay, detectInFlight>>
weatherVars == <<cityInput, weatherDisplay, temperature, humidity, rainfall,
                 cropBtnDisabled, cropDisplay, hasGeolocation, geoPending,
                 awaitingForecast, awaitingGeocode, weatherInFlight>>
fmtVars == <<fmtInfo, fmtOut, fmtDone>>
cropVars == <<soilType, cropInFlight>>
sessionVars == <<location, logoutInFlight>>
vars == <<wizardVars, cameraVars, detectVars, weatherVars, fmtVars, cropVars,
          sessionVars, quietSinceSwitch, pageUnloaded, lastOp, lastArg>>

\* the segment  op  ran on input  arg
Ran(op, arg) == lastOp' = op /\ lastArg' = arg
NoArg == <<>>

\* what the wizard and camera handlers leave alone
otherVars == <<weatherVars, fmtVars, cropVars, sessionVars>>
notWizard == <<otherVars, quietSinceSwitch>>

(* ------------------------------ wizard --------------------------------- *)
\* a reset that forgets  selectedImage = null
ResetImage_KeepsImage ==
    /\ resultDisplay' = EmptyResult
    /\ imagePreview' = EmptyPreview
    /\ detectBtnDisabled' = TRUE
    /\ UNCHANGED selectedImage

\* the reset of plantSelected's "plant chosen" branch (lines 29-32)
ResetImage ==
    /\ resultDisplay' = EmptyResult
    /\ imagePreview' = EmptyPreview
    /\ selectedImage' = NoImage
    /\ detectBtnDisabled' = TRUE

\* plantSelected(), with  value  the option #plantSelect holds
plantSelected(value) ==
    /\ ~pageUnloaded
    /\ selectedPlant' = value
    /\ IF Truthy(value)
       THEN /\ imageSection' = "enabled"
            /\ selectedPlantInfo' = value
            /\ stepClasses' = stepClasses \cup {<<1, "completed">>, <<2, "active">>}
            /\ ResetImage
       ELSE /\ imageSection' = "disabled"
            /\ selectedPlantInfo' = ""
            /\ stepClasses' = stepClasses \ {<<1, "completed">>, <<2, "active">>}
            /\ UNCHANGED <<resultDisplay, imagePreview, selectedImage, detectBtnDisabled>>
    /\ UNCHANGED <<hasStep3, pendingToBlob, pendingReads, activeOption, cameraVars,
                   loadingSpinner, detectInFlight,
                   notWizard, pageUnloaded>>
    /\ Ran("plantSelected", NoArg)

(* ------------------------------ camera --------------------------------- *)
\* a stop that puts the guide overlay back when there is none
stopCamera_TogglesGuide ==
    /\ liveStreams' = IF cameraStream # NoStream
                      THEN liveStreams \ {cameraStream} ELSE liveStreams
    /\ cameraStream' = NoStream
    /\ videoSrc' = NoStream
    /\ cameraBtns' = [start |-> "inline-block", capture |-> "none", stop |-> "none"]
    /\ guideText' = IF guideText = NoGuide THEN selectedPlant ELSE NoGuide

\* stopCamera(): the part of a step that is the call
stopCamera ==
    /\ liveStreams' = IF cameraStream # NoStream
                      THEN liveStreams \ {cameraStream} ELSE liveStreams
    /\ cameraStream' = NoStream
    /\ videoSrc' = NoStream
    /\ cameraBtns' = [start |-> "inline-block", capture |-> "none", stop |-> "none"]
    /\ guideText' = NoGuide

\* the stop button: stopCamera() as a handler of its own; what is recorded
\* with the call is the handler that ran before it
stopCameraClicked ==
    /\ ~pageUnloaded
    /\ stopCamera
    /\ UNCHANGED <<wizardVars, pendingGetUserMedia, detectVars, notWizard, pageUnloaded>>
    /\ Ran("stopCamera", <<lastOp>>)

switchToUpload ==
    /\ ~pageUnloaded
    /\ activeOption' = "upload"
    /\ stopCamera
    /\ UNCHANGED <<selectedImage, selectedPlant, detectBtnDisabled, imagePreview,
                   imageSection, selectedPlantInfo, stepClasses, hasStep3,
                   pendingToBlob, pendingReads, pendingGetUserMedia, detectVars,
                   otherVars, pageUnloaded>>
    /\ quietSinceSwitch' = TRUE
    /\ Ran("switchToUpload", NoArg)

switchToCamera ==
    /\ ~pageUnloaded
    /\ activeOption' = "camera"
    /\ UNCHANGED <<selectedImage, selectedPlant, detectBtnDisabled, imagePreview,
                   imageSection, selectedPlantInfo, stepClasses, hasStep3,
                   pendingToBlob, pendingReads, cameraVars, detectVars,
                   notWizard, pageUnloaded>>
    /\ Ran("switchToCamera", NoArg)

\* startCamera() up to  await navigator.mediaDevices.getUserMedia(constraints)
startCamera ==
    /\ ~pageUnloaded
    /\ pendingGetUserMedia < MaxPending
    /\ pendingGetUserMedia' = pendingGetUserMedia + 1
    /\ UNCHANGED <<wizardVars, cameraStream, liveStreams, videoSrc, cameraBtns,
                   guideText, detectVars, otherVars, pageUnloaded>>
    /\ quietSinceSwitch' = FALSE
    /\ Ran("startCamera", NoArg)

\* the MediaStream getUserMedia hands out: one whose tracks are not running yet
NewStream == CHOOSE s \in Streams \ liveStreams : \A t \in Streams \ liveStreams : s <= t

\* startCamera() resumed with a stream (lines 76-90)
getUserMediaResolved ==
    /\ ~pageUnloaded
    /\ pendingGetUserMedia > 0
    /\ Streams \ liveStreams # {}
    /\ pendingGetUserMedia' = pendingGetUserMedia - 1
    /\ liveStreams' = liveStreams \cup {NewStream}
    /\ cameraStream' = NewStream
    /\ videoSrc' = NewStream
    /\ cameraBtns' = [start |-> "none", capture |-> "inline-block", stop |-> "inline-block"]
    /\ guideText' = IF guideText = NoGuide THEN selectedPlant ELSE guideText
    /\ UNCHANGED <<wizardVars, detectVars, notWizard, pageUnloaded>>
    /\ Ran("getUserMediaResolved", NoArg)

\* startCamera() resumed with a rejection: the catch block alerts (lines 92-95)
getUserMediaRejected ==
    /\ ~pageUnloaded
    /\ pendingGetUserMedia > 0
    /\ pendingGetUserMedia' = pendingGetUserMedia - 1
    /\ UNCHANGED <<wizardVars, cameraStream, liveStreams, videoSrc, cameraBtns,
                   guideText, detectVars, notWizard, pageUnloaded>>
    /\ Ran("getUserMediaRejected", NoArg)

\* captureImage() up to the registration of the toBlob callback; the capture
\* button takes no click while plantSelected has switched the pointer events
\* of the image section off (line 35)
captureImage ==
    /\ ~pageUnloaded
    /\ imageSection # "disabled"
    /\ pendingToBlob < MaxCallbacks
    /\ pendingToBlob' = pendingToBlob + 1
    /\ UNCHANGED <<selectedImage, selectedPlant, detectBtnDisabled, imagePreview,
                   imageSection, selectedPlantInfo, stepClasses, hasStep3,
                   pendingReads, activeOption, cameraVars, detectVars,
                   notWizard, pageUnloaded>>
    /\ Ran("captureImage", NoArg)

\* the toBlob callback (lines 108-128).  On a page without #step3-indicator
\* step3 is null and line 125 throws: the statements after it do not run.
toBlobCallback ==
    /\ ~pageUnloaded
    /\ pendingToBlob > 0
    /\ pendingToBlob' = pendingToBlob - 1
    /\ selectedImage' = CapturedFile(selectedPlant)
    /\ imagePreview' = PreviewHTML("Captured", "canvas", selectedPlant)
    /\ detectBtnDisabled' = FALSE
    /\ IF hasStep3
       THEN /\ stepClasses' = stepClasses \cup {<<2, "completed">>, <<3, "active">>}
            /\ stopCamera
       ELSE /\ stepClasses' = stepClasses \cup {<<2, "completed">>}
            /\ UNCHANGED <<cameraStream, liveStreams, videoSrc, cameraBtns, guideText>>
    /\ UNCHANGED <<selectedPlant, imageSection, selectedPlantInfo, hasStep3,
                   pendingReads, activeOption, pendingGetUserMedia, detectVars,
                   notWizard, pageUnloaded>>
    /\ Ran("toBlobCallback", NoArg)

\* the beforeunload listener (lines 347-349)
beforeunload ==
    /\ ~pageUnloaded
    /\ stopCamera
    /\ pageUnloaded' = TRUE
    /\ UNCHANGED <<wizardVars, pendingGetUserMedia, detectVars, notWizard>>
    /\ Ran("beforeunload", NoArg)

(* ------------------------------ upload --------------------------------- *)
\* previewImage(event), with  file  = event.target.files[0], NoImage when the
\* file dialog was cancelled; #imageInput fires no change event while
\* plantSelected has it disabled
previewImage(file) ==
    /\ ~pageUnloaded
    /\ imageSection # "disabled"
    /\ IF file # NoImage
       THEN /\ pendingReads[file] < MaxCallbacks
            /\ selectedImage' = file
            /\ pendingReads' = [pendingReads EXCEPT ![file] = @ + 1]
       ELSE UNCHANGED <<selectedImage, pendingReads>>
    /\ UNCHANGED <<selectedPlant, detectBtnDisabled, imagePreview, imageSection,
                   selectedPlantInfo, stepClasses, hasStep3, pendingToBlob,
                   activeOption, cameraVars, detectVars, notWizard, pageUnloaded>>
    /\ Ran("previewImage", NoArg)

\* reader.onload for the read of  file  (lines 159-174); line 173 throws on a
\* page without #step3-indicator, after everything else is written
readerOnload(file) ==
    /\ ~pageUnloaded
    /\ pendingReads[file] > 0
    /\ pendingReads' = [pendingReads EXCEPT ![file] = @ - 1]
    /\ imagePreview' = PreviewHTML("Selected", file.name, selectedPlant)
    /\ detectBtnDisabled' = FALSE
    /\ stepClasses' = stepClasses \cup
            (IF hasStep3 THEN {<<2, "completed">>, <<3, "active">>}
                         ELSE {<<2, "completed">>})
    /\ UNCHANGED <<selectedImage, selectedPlant, imageSection, selectedPlantInfo,
                   hasStep3, pendingToBlob, activeOption, cameraVars, detectVars,
                   notWizard, pageUnloaded>>
    /\ Ran("readerOnload", NoArg)

(* ----------------------------- detection ------------------------------- *)
\* data.confidence > 0.8, with confidences in hundredths
HighConfidence == 80
Confidences == {80, 81}
Messages == {"Not a leaf", "Model unavailable"}
\* the text of the spec's example: "**Bold**\n- a\n- b"
BoldAndBullets == <<"**", "Bold", "**", "\n", "- ", "a", "\n", "- ", "b">>

\* what  await fetch(...)  and  await response.json()  can deliver: an envelope
\* with success true or false, or an exception ("throw") of either await
DetectResponses ==
    {[kind |-> "ok", method |-> "model", confidence |-> c, disease_name |-> "blight",
      plant_name |-> "", hasInfo |-> h, disease_info |-> BoldAndBullets, message |-> ""]
        : c \in Confidences, h \in BOOLEAN}
    \cup
    {[kind |-> "ok", method |-> "gemini", confidence |-> 0, disease_name |-> "",
      plant_name |-> pn, hasInfo |-> TRUE, disease_info |-> BoldAndBullets, message |-> ""]
        : pn \in {"", "tomato"}}
    \cup
    {[kind |-> "failure", method |-> "", confidence |-> 0, disease_name |-> "",
      plant_name |-> "", hasInfo |-> FALSE, disease_info |-> <<>>, message |-> m]
        : m \in Messages}
    \cup
    {[kind |-> "throw", method |-> "", confidence |-> 0, disease_name |-> "",
      plant_name |-> "", hasInfo |-> FALSE, disease_info |-> <<>>, message |-> ""]}

\* guards that forget the check of selectedImage
DetectGuardsPass_PlantOnly == Truthy(selectedPlant)

\* the two guards of detectDisease (lines 182-190)
DetectGuardsPass == Truthy(selectedPlant) /\ selectedImage # NoImage

\* a send that discards the image it has put into the form data
DetectSend_ConsumesImage(language) ==
    /\ BagCardinality(detectInFlight) < MaxDetect
    /\ loadingSpinner' = "block"
    /\ resultDisplay' = EmptyResult
    /\ detectInFlight' = detectInFlight (+) SetToBag(
            {[image |-> selectedImage, language |-> language, plant_name |-> selectedPlant]})
    /\ selectedImage' = NoImage
    /\ UNCHANGED <<selectedPlant, detectBtnDisabled, imagePreview, imageSection,
                   selectedPlantInfo, stepClasses, hasStep3, pendingToBlob,
                   pendingReads, activeOption>>

\* detectDisease() past its guards, up to  await fetch  (lines 192-210); the
\* text of #analyzingPlant (line 199), shown inside the spinner and read by
\* no handler, is not part of the state
DetectSend(language) ==
    /\ BagCardinality(detectInFlight) < MaxDetect
    /\ loadingSpinner' = "block"
    /\ resultDisplay' = EmptyResult
    /\ detectInFlight' = detectInFlight (+) SetToBag(
            {[image |-> selectedImage, language |-> language, plant_name |-> selectedPlant]})
    /\ UNCHANGED wizardVars

\* detectDisease() up to its first await, with  language  = #languageSelect.value
detectDisease(language) ==
    /\ ~pageUnloaded
    /\ IF DetectGuardsPass
       THEN DetectSend(language)
       ELSE UNCHANGED <<wizardVars, detectVars>>
    /\ UNCHANGED <<cameraVars, notWizard, pageUnloaded>>
    /\ Ran("detectDisease", NoArg)

\* a badge that is styled high from 0.8 on
Badge_AtLeast(data) ==
    IF data.method = "model"
    THEN IF data.confidence >= HighConfidence THEN "high-confidence" ELSE "medium-confidence"
    ELSE "ai-badge"

\* the class of the confidence badge (line 226), or the AI badge (line 234)
Badge(data) ==
    IF data.method = "model"
    THEN IF data.confidence > HighConfidence THEN "high-confidence" ELSE "medium-confidence"
    ELSE "ai-badge"

\* resultHTML of the success branch (lines 217-243)
DetectSuccessHTML(data) ==
    [kind |-> "result-success", heading |-> "Analysis Complete",
     plant |-> IF Truthy(data.plant_name) THEN data.plant_name ELSE selectedPlant,
     badge |-> Badge(data),
     conf |-> IF data.method = "model" THEN data.confidence ELSE 0,
     disease |-> IF data.method = "model" THEN data.disease_name ELSE "",
     info |-> formatDiseaseInfo(data.disease_info), message |-> ""]

\* whether the try block of detectDisease throws on  data : an exception of
\* fetch or json(), info.replace on an undefined disease_info, or classList of
\* a null step3 (line 246)
DetectThrows(data) ==
    \/ data.kind = "throw"
    \/ data.kind = "ok" /\ (~data.hasInfo \/ ~hasStep3)

\* a result that is written only into an empty display
DetectResult_FirstWins(data) ==
    IF resultDisplay # EmptyResult THEN resultDisplay
    ELSE IF DetectThrows(data) THEN DetectErrorHTML
    ELSE IF data.kind = "ok" THEN DetectSuccessHTML(data)
    ELSE DetectFailureHTML(data.message, selectedPlant)

\* a result without the catch block: an exception leaves the display empty
DetectResult_NoCatch(data) ==
    IF DetectThrows(data) THEN EmptyResult
    ELSE IF data.kind = "ok" THEN DetectSuccessHTML(data)
    ELSE DetectFailureHTML(data.message, selectedPlant)

\* what #resultDisplay holds when the handler is done with  data : the block
\* of the catch (lines 257-262), of the success branch (line 243) or of the
\* failure branch (lines 248-253)
DetectResult(data) ==
    IF DetectThrows(data) THEN DetectErrorHTML
    ELSE IF data.kind = "ok" THEN DetectSuccessHTML(data)
    ELSE DetectFailureHTML(data.message, selectedPlant)

\* detectDisease() resumed with the answer to request r (lines 212-264); what
\* is recorded with it is the answer and the kind of block the display held
detectResponse(r, data) ==
    /\ ~pageUnloaded
    /\ BagIn(r, detectInFlight)
    /\ detectInFlight' = detectInFlight (-) SetToBag({r})
    /\ loadingSpinner' = "none"
    /\ resultDisplay' = DetectResult(data)
    /\ stepClasses' = IF data.kind = "ok" /\ ~DetectThrows(data)
                      THEN stepClasses \cup {<<3, "completed">>} ELSE stepClasses
    /\ UNCHANGED <<selectedImage, selectedPlant, detectBtnDisabled, imagePreview,
                   imageSection, selectedPlantInfo, hasStep3, pendingToBlob,
                   pendingReads, activeOption, cameraVars, notWizard, pageUnloaded>>
    /\ Ran("detectResponse", [data |-> data, found |-> resultDisplay.kind])

(* ------------------------- location / weather -------------------------- *)
\* what the weather handlers leave alone
notWeather == <<wizardVars, cameraVars, detectVars, fmtVars, cropVars, sessionVars,
                quietSinceSwitch, pageUnloaded>>

\* A city text is a sequence of tokens: " " and words.
Whitespace == {" "}
\* cityInput.value = 'Detecting location...'  (getUserLocation, line 11)
LocationPlaceholder == <<"Detecting", " ", "location...">>
\* city === 'Detecting location...'  (getWeather, line 55)
RejectedCity == <<"Detecting", " ", "location...">>
\* let cityName = 'Your Location'  (line 29)
YourLocation == <<"Your", " ", "Location">>
\* what the user can type into #cityInput
CityTexts == {<<>>, <<" ">>, <<" ", "Pune", " ">>,
              <<" ">> \o LocationPlaceholder \o <<" ">>}
\* geoData.results, as the names of its entries (missing is as empty)
GeocodeResults == {<<>>, <<<<"Delhi">>, <<"Pune">>>>}

\* String.prototype.trim
RECURSIVE trim(_)
trim(s) ==
    IF s = <<>> THEN s
    ELSE IF Head(s) \in Whitespace THEN trim(Tail(s))
    ELSE IF s[Len(s)] \in Whitespace THEN trim(SubSeq(s, 1, Len(s) - 1))
    ELSE s

\* innerHTML of #cropDisplay
EmptyCropHTML == [kind |-> "empty", message |-> "", body |-> <<>>]
CropInfoHTML(message) == [kind |-> "info", message |-> message, body |-> <<>>]
CropErrorHTML(message) == [kind |-> "error", message |-> message, body |-> <<>>]
WeatherLoadedMsg == "Weather data loaded! Select soil type and click \"Get Crop Recommendations\""

\* innerHTML of #weatherDisplay
InitialWeatherHTML == [kind |-> "initial", cards |-> <<>>, message |-> ""]
WeatherInfoHTML(message) == [kind |-> "info", cards |-> <<>>, message |-> message]
WeatherErrorHTML(message) == [kind |-> "error", cards |-> <<>>, message |-> message]
LocationDeniedMsg == "Unable to get your location. Please enter city manually."
LocationFetchErrorMsg == "Error fetching location data"
WeatherFetchErrorMsg == "Error fetching weather data. Please try again."

\* the weather snapshots a forecast answer can hold: well formed ("ok", with
\* daily.precipitation_sum[0] present or not), without  current , or without
\*  daily
Snapshots ==
    {[shape |-> "ok", temperature_2m |-> t, relative_humidity_2m |-> 60,
      wind_speed_10m |-> 10, precipitation |-> 0, hasDailySum |-> d[1],
      precipitation_sum |-> d[2]]
        : t \in {25}, d \in {<<FALSE, 0>>, <<TRUE, 5>>}}
    \cup
    {[shape |-> sh, temperature_2m |-> 25, relative_humidity_2m |-> 60,
      wind_speed_10m |-> 10, precipitation |-> 0, hasDailySum |-> FALSE,
      precipitation_sum |-> 0] : sh \in {"noCurrent", "noDaily"}}

\* three cards only: the wind card is left out
WeatherCards_NoWind(current) ==
    << <<"Temperature", current.temperature_2m>>,
       <<"Humidity", current.relative_humidity_2m>>,
       <<"Precipitation", current.precipitation>> >>

\* weatherHTML (lines 82-99): the weather-item cards, label and value
WeatherCards(current) ==
    << <<"Temperature", current.temperature_2m>>,
       <<"Humidity", current.relative_humidity_2m>>,
       <<"Wind Speed", current.wind_speed_10m>>,
       <<"Precipitation", current.precipitation>> >>

\* whether displayWeather throws on  weatherData : reading a field of an
\* undefined  current  (line 84) or of an undefined  daily  (line 106)
DisplayThrows(weatherData) == weatherData.shape # "ok"

\* a displayWeather that enables the button before it fills the fields
displayWeather_EnablesFirst(weatherData, cityName, caught) ==
    /\ weatherDisplay' = IF DisplayThrows(weatherData) THEN caught
                         ELSE [kind |-> "cards", cards |-> WeatherCards(weatherData),
                               message |-> ""]
    /\ IF weatherData.shape = "noCurrent"
       THEN UNCHANGED <<temperature, humidity>>
       ELSE /\ temperature' = ToString(weatherData.temperature_2m)
            /\ humidity' = ToString(weatherData.relative_humidity_2m)
    /\ cropBtnDisabled' = (weatherData.shape = "noCurrent" /\ cropBtnDisabled)
    /\ IF DisplayThrows(weatherData)
       THEN UNCHANGED <<rainfall, cropDisplay>>
       ELSE /\ rainfall' = ToString(IF weatherData.hasDailySum
                                       /\ weatherData.precipitation_sum # 0
                                    THEN weatherData.precipitation_sum ELSE 0)
            /\ cropDisplay' = CropInfoHTML(WeatherLoadedMsg)

\* displayWeather(weatherData, cityName), called in a try block whose catch
\* writes  caught  to #weatherDisplay
displayWeather(weatherData, cityName, caught) ==
    /\ weatherDisplay' = IF DisplayThrows(weatherData) THEN caught
                         ELSE [kind |-> "cards", cards |-> WeatherCards(weatherData),
                               message |-> ""]
    /\ IF weatherData.shape = "noCurrent"
       THEN UNCHANGED <<temperature, humidity>>
       ELSE /\ temperature' = ToString(weatherData.temperature_2m)
            /\ humidity' = ToString(weatherData.relative_humidity_2m)
    /\ IF DisplayThrows(weatherData)
       THEN UNCHANGED <<rainfall, cropBtnDisabled, cropDisplay>>
       ELSE /\ rainfall' = ToString(IF weatherData.hasDailySum
                                       /\ weatherData.precipitation_sum # 0
                                    THEN weatherData.precipitation_sum ELSE 0)
            /\ cropBtnDisabled' = FALSE
            /\ cropDisplay' = CropInfoHTML(WeatherLoadedMsg)

\* the user types  text  into #cityInput
typeCity(text) ==
    /\ ~pageUnloaded
    /\ cityInput' = text
    /\ UNCHANGED <<weatherDisplay, temperature, humidity, rainfall, cropBtnDisabled,
                   cropDisplay, hasGeolocation, geoPending, awaitingForecast,
                   awaitingGeocode, weatherInFlight, notWeather>>
    /\ Ran("typeCity", NoArg)

\* getUserLocation() up to the call of getCurrentPosition (lines 1-13)
getUserLocation ==
    /\ ~pageUnloaded
    /\ IF hasGeolocation
       THEN /\ geoPending + awaitingForecast + Len(awaitingGeocode) < MaxLookups
            /\ weatherDisplay' = WeatherInfoHTML("Getting your location...")
            /\ cityInput' = LocationPlaceholder
            /\ geoPending' = geoPending + 1
       ELSE UNCHANGED <<weatherDisplay, cityInput, geoPending>>
    /\ UNCHANGED <<temperature, humidity, rainfall, cropBtnDisabled, cropDisplay,
                   hasGeolocation, awaitingForecast, awaitingGeocode,
                   weatherInFlight, notWeather>>
    /\ Ran("getUserLocation", NoArg)

\* an error callback that leaves the placeholder in the city input
positionError_KeepsCity ==
    /\ ~pageUnloaded
    /\ geoPending > 0
    /\ geoPending' = geoPending - 1
    /\ weatherDisplay' = WeatherErrorHTML(LocationDeniedMsg)
    /\ UNCHANGED <<cityInput, temperature, humidity, rainfall, cropBtnDisabled,
                   cropDisplay, hasGeolocation, awaitingForecast, awaitingGeocode,
                   weatherInFlight, notWeather>>
    /\ Ran("positionError", NoArg)

\* the error callback of getCurrentPosition (lines 43-47)
positionError ==
    /\ ~pageUnloaded
    /\ geoPending > 0
    /\ geoPending' = geoPending - 1
    /\ weatherDisplay' = WeatherErrorHTML(LocationDeniedMsg)
    /\ cityInput' = <<>>
    /\ UNCHANGED <<temperature, humidity, rainfall, cropBtnDisabled, cropDisplay,
                   hasGeolocation, awaitingForecast, awaitingGeocode,
                   weatherInFlight, notWeather>>
    /\ Ran("positionError", NoArg)

\* the success callback up to  await fetch(weatherUrl)  (lines 14-21)
positionCallback ==
    /\ ~pageUnloaded
    /\ geoPending > 0
    /\ geoPending' = geoPending - 1
    /\ awaitingForecast' = awaitingForecast + 1
    /\ UNCHANGED <<cityInput, weatherDisplay, temperature, humidity, rainfall,
                   cropBtnDisabled, cropDisplay, hasGeolocation, awaitingGeocode,
                   weatherInFlight, notWeather>>
    /\ Ran("positionCallback", NoArg)

\* the success callback resumed with the forecast, up to  await fetch(geoUrl)
\* (lines 22-26)
forecastFetched(weatherData) ==
    /\ ~pageUnloaded
    /\ awaitingForecast > 0
    /\ awaitingForecast' = awaitingForecast - 1
    /\ awaitingGeocode' = Append(awaitingGeocode, weatherData)
    /\ UNCHANGED <<cityInput, weatherDisplay, temperature, humidity, rainfall,
                   cropBtnDisabled, cropDisplay, hasGeolocation, geoPending,
                   weatherInFlight, notWeather>>
    /\ Ran("forecastFetched", NoArg)

\* the catch block of the success callback (lines 37-41)
LocationCaught ==
    /\ weatherDisplay' = WeatherErrorHTML(LocationFetchErrorMsg)
    /\ cityInput' = <<>>
    /\ UNCHANGED <<temperature, humidity, rainfall, cropBtnDisabled, cropDisplay>>

\* the forecast fetch, or its json(), throws
forecastFailed ==
    /\ ~pageUnloaded
    /\ awaitingForecast > 0
    /\ awaitingForecast' = awaitingForecast - 1
    /\ LocationCaught
    /\ UNCHANGED <<hasGeolocation, geoPending, awaitingGeocode, weatherInFlight, notWeather>>
    /\ Ran("forecastFailed", NoArg)

\* s without its i-th element
RemoveAt(s, i) == SubSeq(s, 1, i - 1) \o SubSeq(s, i + 1, Len(s))

\* the success callback resumed with the geocoding answer (lines 27-36), for
\* the i-th of the callbacks waiting for one
geocodeFetched(i, results) ==
    /\ ~pageUnloaded
    /\ i \in 1..Len(awaitingGeocode)
    /\ awaitingGeocode' = RemoveAt(awaitingGeocode, i)
    /\ LET weatherData == awaitingGeocode[i]
           cityName == IF Len(results) > 0 THEN results[1] ELSE YourLocation
       IN  /\ cityInput' = IF DisplayThrows(weatherData) THEN <<>> ELSE cityName
           /\ displayWeather(weatherData, cityName,
                             WeatherErrorHTML(LocationFetchErrorMsg))
           /\ Ran("geocodeFetched", [weather |-> weatherData, results |-> results])
    /\ UNCHANGED <<hasGeolocation, geoPending, awaitingForecast, weatherInFlight, notWeather>>

\* the geocoding fetch, or its json(), throws
geocodeFailed(i) ==
    /\ ~pageUnloaded
    /\ i \in 1..Len(awaitingGeocode)
    /\ awaitingGeocode' = RemoveAt(awaitingGeocode, i)
    /\ LocationCaught
    /\ UNCHANGED <<hasGeolocation, geoPending, awaitingForecast, weatherInFlight, notWeather>>
    /\ Ran("geocodeFailed", NoArg)

\* a check that lets the placeholder through
CityRejected_EmptyOnly(city) == city = <<>>

\* !city || city === 'Detecting location...'  (line 55)
CityRejected(city) == city = <<>> \/ city = RejectedCity

\* getWeather() up to  await fetch  (lines 51-63)
getWeather ==
    /\ ~pageUnloaded
    /\ LET city == trim(cityInput)
       IN  IF CityRejected(city)
           THEN UNCHANGED <<weatherDisplay, weatherInFlight>>
           ELSE /\ BagCardinality(weatherInFlight) < MaxWeather
                /\ weatherDisplay' = WeatherInfoHTML("Loading weather data...")
                /\ weatherInFlight' = weatherInFlight (+) SetToBag({[city |-> city]})
    /\ UNCHANGED <<cityInput, temperature, humidity, rainfall, cropBtnDisabled,
                   cropDisplay, hasGeolocation, geoPending, awaitingForecast,
                   awaitingGeocode, notWeather>>
    /\ Ran("getWeather", NoArg)

\* what the /api/weather fetch and json() can deliver
WeatherResponses ==
    {[kind |-> "ok", weather |-> w, message |-> ""] : w \in Snapshots}
    \cup {[kind |-> "failure", weather |-> w, message |-> m]
            : w \in {CHOOSE x \in Snapshots : x.shape = "noCurrent"}, m \in Messages}
    \cup {[kind |-> "throw", weather |-> w, message |-> ""]
            : w \in {CHOOSE x \in Snapshots : x.shape = "noCurrent"}}

\* getWeather() resumed with the answer to request r (lines 64-74)
weatherResponse(r, data) ==
    /\ ~pageUnloaded
    /\ BagIn(r, weatherInFlight)
    /\ weatherInFlight' = weatherInFlight (-) SetToBag({r})
    /\ IF data.kind = "ok"
       THEN displayWeather(data.weather, r.city, WeatherErrorHTML(WeatherFetchErrorMsg))
       ELSE /\ weatherDisplay' = WeatherErrorHTML(IF data.kind = "failure"
                                                  THEN data.message
                                                  ELSE WeatherFetchErrorMsg)
            /\ UNCHANGED <<temperature, humidity, rainfall, cropBtnDisabled, cropDisplay>>
    /\ UNCHANGED <<cityInput, hasGeolocation, geoPending, awaitingForecast,
                   awaitingGeocode, notWeather>>
    /\ Ran("weatherResponse", [data |-> data, found |-> weatherDisplay.kind])

(* ------------------------- crop recommendation ------------------------- *)
\* what the crop handlers leave alone
notCrop == <<cityInput, weatherDisplay, temperature, humidity, rainfall,
             cropBtnDisabled, hasGeolocation, geoPending, awaitingForecast,
             awaitingGeocode, weatherInFlight, wizardVars, cameraVars, detectVars,
             fmtVars, sessionVars, quietSinceSwitch, pageUnloaded>>

\* the options of #soilType besides the empty one
SoilTypes == {"loamy"}
\* the fixed text of getCropRecommendation's catch block
GenericCropError == "Error getting recommendations."
\* data.recommendations: tokens "\n", numbering marks and words
NumberMarks == {"1. ", "2. "}
Recommendations == <<"1. ", "Rice", "\n", "\n", "2. ", "Wheat", "\n", "grows">>

\* parseFloat of the text of a number input, for the numbers displayWeather
\* writes there
ParseFloat(s) == CHOOSE n \in 0..100 : ToString(n) = s

\* formatted.replace(/\n\n/g, '<br><br>')
RECURSIVE ReplaceBlankLines(_)
ReplaceBlankLines(s) ==
    IF Len(s) < 2 THEN s
    ELSE IF s[1] = "\n" /\ s[2] = "\n"
         THEN <<"<br>", "<br>">> \o ReplaceBlankLines(SubSeq(s, 3, Len(s)))
         ELSE <<s[1]>> \o ReplaceBlankLines(Tail(s))

\* formatted.replace(/(\d+\.\s+)/g, '<strong>$1</strong>')
RECURSIVE ReplaceNumbering(_)
ReplaceNumbering(s) ==
    IF s = <<>> THEN s
    ELSE (IF Head(s) \in NumberMarks THEN <<"<strong>", Head(s), "</strong>">>
          ELSE <<Head(s)>>) \o ReplaceNumbering(Tail(s))

\* formatCropRecommendations(text): the formatted text in its <div>
formatCropRecommendations(text) ==
    [kind |-> "recommendations", message |-> "",
     body |-> ReplaceNumbering(ReplaceNewlines(ReplaceBlankLines(text)))]

\* what the /api/crop-recommendation fetch and json() can deliver
CropResponses ==
    {[kind |-> "ok", hasRecommendations |-> h, recommendations |-> Recommendations,
      message |-> ""] : h \in BOOLEAN}
    \cup {[kind |-> "failure", hasRecommendations |-> FALSE, recommendations |-> <<>>,
           message |-> m] : m \in Messages}
    \cup {[kind |-> "throw", hasRecommendations |-> FALSE, recommendations |-> <<>>,
           message |-> ""]}

\* the user picks  value  in #soilType
selectSoil(value) ==
    /\ ~pageUnloaded
    /\ soilType' = value
    /\ UNCHANGED <<cropInFlight, cropDisplay, notCrop>>
    /\ Ran("selectSoil", NoArg)

\* guards that take a field holding 0 for a field not filled
CropGuardsPass_ZeroIsMissing ==
    /\ temperature \notin {"", "0"} /\ humidity \notin {"", "0"}
    /\ rainfall \notin {"", "0"}
    /\ soilType # ""

\* the two guards of getCropRecommendation (lines 283-291): the values are
\* strings, and a string is falsy only when it is empty
CropGuardsPass ==
    /\ temperature # "" /\ humidity # "" /\ rainfall # ""
    /\ soilType # ""

\* getCropRecommendation() up to  await fetch  (lines 277-306)
getCropRecommendation ==
    /\ ~pageUnloaded
    /\ IF CropGuardsPass
       THEN /\ BagCardinality(cropInFlight) < MaxCrop
            /\ cropDisplay' = CropInfoHTML("Loading recommendations...")
            /\ cropInFlight' = cropInFlight (+) SetToBag(
                    {[temperature |-> ParseFloat(temperature),
                      humidity |-> ParseFloat(humidity),
                      rainfall |-> ParseFloat(rainfall),
                      soil_type |-> soilType]})
       ELSE UNCHANGED <<cropDisplay, cropInFlight>>
    /\ UNCHANGED <<soilType, notCrop>>
    /\ Ran("getCropRecommendation", NoArg)

\* whether the try block throws on  data : an exception of fetch or json(),
\* or text.replace on an undefined  recommendations  (line 324)
CropThrows(data) ==
    data.kind = "throw" \/ (data.kind = "ok" /\ ~data.hasRecommendations)

\* getCropRecommendation() resumed with the answer to request r (lines 308-319)
cropResponse(r, data) ==
    /\ ~pageUnloaded
    /\ BagIn(r, cropInFlight)
    /\ cropInFlight' = cropInFlight (-) SetToBag({r})
    /\ cropDisplay' = IF CropThrows(data) THEN CropErrorHTML(GenericCropError)
                      ELSE IF data.kind = "ok"
                           THEN formatCropRecommendations(data.recommendations)
                           ELSE CropErrorHTML(data.message)
    /\ UNCHANGED <<soilType, notCrop>>
    /\ Ran("cropResponse", [data |-> data, found |-> cropDisplay.kind])

(* ------------------------------- logout -------------------------------- *)
\* what the logout handlers leave alone
notSession == <<wizardVars, cameraVars, detectVars, weatherVars, cropVars, fmtVars,
                quietSinceSwitch, pageUnloaded>>

\* what the /api/logout fetch and json() can deliver: an envelope whose
\* success is true, false or absent, the JSON value null, or an exception
LogoutResponses ==
    {[kind |-> "envelope", success |-> v] : v \in {"true", "false", "absent"}}
    \cup {[kind |-> k, success |-> "absent"] : k \in {"null", "throw"}}

\* logout() up to the fetch (lines 332-336)
logout ==
    /\ ~pageUnloaded
    /\ logoutInFlight < MaxLogout
    /\ logoutInFlight' = logoutInFlight + 1
    /\ UNCHANGED <<location, notSession>>
    /\ Ran("logout", NoArg)

\* a handler that navigates on every envelope
LogoutNavigates_AnyEnvelope(data) == data.kind = "envelope"

\* if (data.success)  (line 339); reading  success  of null throws into the
\* catch of line 343, as an exception of fetch or json() does
LogoutNavigates(data) == data.kind = "envelope" /\ data.success = "true"

\* the then / catch callbacks of logout (lines 337-343)
logoutResponse(data) ==
    /\ ~pageUnloaded
    /\ logoutInFlight > 0
    /\ logoutInFlight' = logoutInFlight - 1
    /\ location' = IF LogoutNavigates(data) THEN "/" ELSE location
    /\ UNCHANGED notSession
    /\ Ran("logoutResponse", data)

(* ------------------------ formatDiseaseInfo calls ---------------------- *)
\* the lines a disease-info text is made of
InfoLines == {<<"**", "Bold", "**">>, <<"- ", "a">>, <<"- ", "b">>, <<"x">>}

\* the lines joined by "\n"
RECURSIVE JoinLines(_)
JoinLines(ls) ==
    IF Len(ls) = 0 THEN <<>>
    ELSE IF Len(ls) = 1 THEN ls[1]
    ELSE ls[1] \o <<"\n">> \o JoinLines(Tail(ls))

\* the texts formatDiseaseInfo is called on: up to MaxLines lines, with or
\* without a newline after the last one
FormatInputs ==
    LET texts == {JoinLines(ls) : ls \in UNION {[1..n -> InfoLines] : n \in 1..MaxLines}}
    IN  texts \cup {t \o <<"\n">> : t \in texts}

\* one call formatDiseaseInfo(fmtInfo)
formatCall ==
    /\ ~fmtDone
    /\ fmtOut' = formatDiseaseInfo(fmtInfo)
    /\ fmtDone' = TRUE
    /\ UNCHANGED <<fmtInfo, wizardVars, cameraVars, detectVars, weatherVars, cropVars,
                   sessionVars, quietSinceSwitch, pageUnloaded>>
    /\ Ran("formatDiseaseInfo", NoArg)

(* --------------------------- specification ----------------------------- *)
\* the script's own state when it has loaded: the three variables of lines
\* 1-3 are null, and no callback or request is outstanding
InitScript ==
    /\ selectedImage = NoImage
    /\ selectedPlant = NullPlant
    /\ cameraStream = NoStream
    /\ liveStreams = {}
    /\ pendingGetUserMedia = 0
    /\ pendingToBlob = 0
    /\ pendingReads = [f \in Files |-> 0]
    /\ detectInFlight = EmptyBag
    /\ pageUnloaded = FALSE

\* the page as its markup sets it up: nothing is selected, so the detect
\* button and the image section are disabled, the upload option is shown and
\* nothing is rendered yet; #step3-indicator may or may not be in the markup
InitPage ==
    /\ detectBtnDisabled = TRUE
    /\ imagePreview = EmptyPreview
    /\ imageSection = "disabled"
    /\ selectedPlantInfo = ""
    /\ stepClasses = {}
    /\ hasStep3 \in BOOLEAN
    /\ activeOption = "upload"
    /\ videoSrc = NoStream
    /\ cameraBtns = [start |-> "inline-block", capture |-> "none", stop |-> "none"]
    /\ guideText = NoGuide
    /\ loadingSpinner = "none"
    /\ resultDisplay = EmptyResult

InitWizard == InitScript /\ InitPage

\* no call of formatDiseaseInfo is being followed
InitFormat == fmtInfo = <<>> /\ fmtOut = <<>> /\ fmtDone = TRUE

\* the weather section as its markup sets it up, with no lookup under way
InitWeather ==
    /\ cityInput = <<>>
    /\ weatherDisplay = InitialWeatherHTML
    /\ temperature = "" /\ humidity = "" /\ rainfall = ""
    /\ cropBtnDisabled = TRUE
    /\ cropDisplay = EmptyCropHTML
    /\ hasGeolocation \in BOOLEAN
    /\ geoPending = 0 /\ awaitingForecast = 0 /\ awaitingGeocode = <<>>
    /\ weatherInFlight = EmptyBag

\* no soil type is chosen and no recommendation request is under way
InitCrop == soilType = "" /\ cropInFlight = EmptyBag

\* the dashboard is the page shown; no logout is under way
InitSession == location = "/dashboard" /\ logoutInFlight = 0 /\ quietSinceSwitch = FALSE

Init ==
    /\ InitWizard /\ InitWeather /\ InitFormat /\ InitCrop /\ InitSession
    /\ lastOp = "load" /\ lastArg = NoArg

\* the wizard without the camera's start and stop and without the page's
\* unload: the camera variables are written by the camera handlers alone and
\* read by no other handler
Next ==
    \/ \E value \in PlantValues : plantSelected(value)
    \/ \E file \in Files \cup {NoImage} : previewImage(file)
    \/ \E file \in Files : readerOnload(file)
    \/ captureImage
    \/ toBlobCallback
    \/ \E language \in Languages : detectDisease(language)
    \/ \E r \in BagToSet(detectInFlight), data \in DetectResponses : detectResponse(r, data)

Spec == Init /\ [][Next]_vars

\* the camera: every handler that reads or writes the camera variables
NextCamera ==
    \/ \E value \in PlantValues : plantSelected(value)
    \/ switchToUpload
    \/ switchToCamera
    \/ startCamera
    \/ getUserMediaResolved
    \/ getUserMediaRejected
    \/ captureImage
    \/ toBlobCallback
    \/ stopCameraClicked
    \/ beforeunload

SpecCamera == Init /\ [][NextCamera]_vars

\* the location and weather handlers: they share no variable with the wizard
NextWeather ==
    \/ \E text \in CityTexts : typeCity(text)
    \/ getUserLocation
    \/ positionError
    \/ positionCallback
    \/ \E weatherData \in Snapshots : forecastFetched(weatherData)
    \/ forecastFailed
    \/ \E i \in 1..MaxLookups, results \in GeocodeResults : geocodeFetched(i, results)
    \/ \E i \in 1..MaxLookups : geocodeFailed(i)
    \/ getWeather
    \/ \E r \in BagToSet(weatherInFlight), data \in WeatherResponses : weatherResponse(r, data)

SpecWeather == Init /\ [][NextWeather]_vars

\* the three handlers that post to the backend and show its answer, with the
\* handlers that set up what their guards read, on a page that has every
\* element; of each kind of answer (success, failure envelope, exception) the
\* ones below are followed
RequestMessages == {"Model unavailable"}
RequestDetectResponses ==
    {d \in DetectResponses :
        /\ d.kind = "ok" => d.method = "model" /\ d.confidence > HighConfidence
        /\ d.kind = "failure" => d.message \in RequestMessages}
RequestWeatherResponses ==
    {w \in WeatherResponses :
        /\ w.kind = "ok" => w.weather.shape \in {"ok", "noDaily"} /\ ~w.weather.hasDailySum
        /\ w.kind = "failure" => w.message \in RequestMessages}
RequestCropResponses ==
    {c \in CropResponses : c.kind = "failure" => c.message \in RequestMessages}

InitRequests == Init /\ hasStep3 /\ hasGeolocation

NextRequests ==
    \/ plantSelected("tomato")
    \/ \E file \in Files : previewImage(file)
    \/ \E language \in Languages : detectDisease(language)
    \/ \E r \in BagToSet(detectInFlight), data \in RequestDetectResponses :
            detectResponse(r, data)
    \/ typeCity(<<" ", "Pune", " ">>)
    \/ getWeather
    \/ \E r \in BagToSet(weatherInFlight), data \in RequestWeatherResponses :
            weatherResponse(r, data)
    \/ \E value \in SoilTypes : selectSoil(value)
    \/ getCropRecommendation
    \/ \E r \in BagToSet(cropInFlight), data \in RequestCropResponses :
            cropResponse(r, data)

SpecRequests == InitRequests /\ [][NextRequests]_vars

\* logout next to the handlers that build up the page's state, and the unload
\* that follows a navigation
NextSession ==
    \/ \E value \in PlantValues : plantSelected(value)
    \/ \E file \in Files : previewImage(file)
    \/ \E file \in Files : readerOnload(file)
    \/ logout
    \/ \E data \in LogoutResponses : logoutResponse(data)
    \/ beforeunload

SpecSession == Init /\ [][NextSession]_vars

\* calls of formatDiseaseInfo on the texts of FormatInputs
InitFormatCall ==
    /\ InitWizard /\ InitWeather /\ InitCrop /\ InitSession
    /\ fmtInfo \in FormatInputs /\ fmtOut = <<>> /\ fmtDone = FALSE
    /\ lastOp = "load" /\ lastArg = NoArg

NextFormat == formatCall

SpecFormat == InitFormatCall /\ [][NextFormat]_vars

(* ------------------------------- claims -------------------------------- *)
\* C1: the detect button is enabled only while an image is selected
\* (selectedImage is not null), in every reachable state.
C1_DetectEnabledOnlyWithImage == ~detectBtnDisabled => selectedImage # NoImage

\* C2: at most one acquired camera stream has tracks that were not stopped.
C2_AtMostOneLiveStream == Cardinality(liveStreams) <= 1

\* C3: once the toBlob callback of captureImage has assigned selectedImage,
\* the camera is stopped: cameraStream is null and the video is detached.
C3_CaptureStopsCamera ==
    lastOp = "toBlobCallback" => cameraStream = NoStream /\ videoSrc = NoStream

\* C4: a detectDisease call made while selectedPlant is empty or null, or
\* selectedImage is null, sends no request and leaves the spinner and the
\* result display as they are.
C4_DetectNoOpWithoutPlantOrImage ==
    [][(lastOp' = "detectDisease" /\ (~Truthy(selectedPlant) \/ selectedImage = NoImage))
        => UNCHANGED <<detectInFlight, loadingSpinner, resultDisplay>>]_vars

\* a detectDisease call ran with a plant chosen and no image, while the
\* request of an earlier call was in flight
C4_Witness ==
    /\ lastOp = "detectDisease"
    /\ Truthy(selectedPlant)
    /\ selectedImage = NoImage
    /\ BagCardinality(detectInFlight) = 1

\* C5 as stated: the detectDisease call that sends a request discards the
\* image, so that selectedImage no longer holds it.
C5_ImageConsumedOnSend ==
    [][(lastOp' = "detectDisease" /\ detectInFlight' # detectInFlight)
        => selectedImage' # selectedImage]_vars

\* C5 amended: detectDisease keeps the image: neither the call that sends a
\* request nor the handling of its response changes selectedImage, and right
\* after a send the guards of a further call still pass.
C5_ImageKeptAfterSend ==
    [][/\ lastOp' \in {"detectDisease", "detectResponse"} => selectedImage' = selectedImage
       /\ (lastOp' = "detectDisease" /\ detectInFlight' # detectInFlight)
            => DetectGuardsPass']_vars

\* two requests are in flight that carry the image still selected
C5_Witness ==
    /\ lastOp = "detectDisease"
    /\ BagCardinality(detectInFlight) = 2
    /\ selectedImage # NoImage
    /\ \A r \in BagToSet(detectInFlight) : r.image = selectedImage

\* the state plantSelected's reset leaves
ImageAndResultReset ==
    /\ selectedImage = NoImage
    /\ imagePreview = EmptyPreview
    /\ detectBtnDisabled
    /\ resultDisplay = EmptyResult

\* C6 as stated: after every plantSelected call, whatever the value chosen,
\* the image, the preview, the detect button and the result are reset.
C6_EveryPlantChangeResets == lastOp = "plantSelected" => ImageAndResultReset

\* C6 amended: a plantSelected call that chooses a plant (another one or the
\* same again) resets image, preview, detect button and result; a call that
\* chooses the empty "no plant" value leaves all four as they are.
C6_PlantChosenResets ==
    [][lastOp' = "plantSelected" =>
         IF Truthy(selectedPlant')
         THEN ImageAndResultReset'
         ELSE UNCHANGED <<selectedImage, imagePreview, detectBtnDisabled, resultDisplay>>]_vars

\* a plant was chosen after a detection had succeeded (step 3 is marked
\* completed), and the image and the result are gone
C6_Witness ==
    /\ lastOp = "plantSelected"
    /\ Truthy(selectedPlant)
    /\ <<3, "completed">> \in stepClasses /\ detectInFlight = EmptyBag
    /\ ImageAndResultReset

\* C7: a getWeather call made while the city input, trimmed, is empty or is
\* the placeholder getUserLocation writes sends no request and leaves the
\* weather display as it is.
C7_GetWeatherRejectsEmptyAndPlaceholder ==
    [][(lastOp' = "getWeather"
        /\ (trim(cityInput) = <<>> \/ trim(cityInput) = LocationPlaceholder))
        => UNCHANGED <<weatherInFlight, weatherDisplay>>]_vars

\* getWeather ran on the placeholder while the geolocation request that wrote
\* it was pending
C7_Witness ==
    /\ lastOp = "getWeather"
    /\ cityInput = LocationPlaceholder
    /\ geoPending > 0
    /\ weatherInFlight = EmptyBag
    /\ weatherDisplay = WeatherInfoHTML("Getting your location...")

\* C8: after the error callback of the geolocation request the weather
\* display shows an error message and the city input is empty.
C8_DenialShowsErrorAndClearsCity ==
    lastOp = "positionError" => weatherDisplay.kind = "error" /\ cityInput = <<>>

C8_Witness ==
    /\ lastOp = "positionError"
    /\ weatherDisplay = WeatherErrorHTML(LocationDeniedMsg)
    /\ cityInput = <<>>

\* C9: when the position callback has got a well-formed forecast and a
\* geocoding answer that names a place, the city input holds that name and the
\* weather display holds exactly four cards: temperature, humidity, wind
\* speed, precipitation.
C9_LocationShowsNameAndFourCards ==
    (lastOp = "geocodeFetched" /\ lastArg.weather.shape = "ok" /\ lastArg.results # <<>>)
    => /\ cityInput = lastArg.results[1]
       /\ weatherDisplay.kind = "cards"
       /\ Len(weatherDisplay.cards) = 4
       /\ [k \in 1..4 |-> weatherDisplay.cards[k][1]]
            = <<"Temperature", "Humidity", "Wind Speed", "Precipitation">>
       /\ weatherDisplay.cards[1][2] = lastArg.weather.temperature_2m

C9_Witness ==
    /\ lastOp = "geocodeFetched"
    /\ lastArg.weather.shape = "ok"
    /\ lastArg.results # <<>>
    /\ cityInput = <<"Delhi">>
    /\ Len(weatherDisplay.cards) = 4

\* C10: formatDiseaseInfo("**Bold**\n- a\n- b") is bolded "Bold", one line
\* break, and one list that wraps the two items a and b.
C10_BoldAndTwoBullets ==
    (fmtDone /\ fmtInfo = BoldAndBullets)
    => fmtOut = <<"<strong>", "Bold", "</strong>", "<br>",
                  "<ul>", "<li>", "a", "</li>", "<li>", "b", "</li>", "</ul>">>

\* C11: a result block of the model method carries the badge class
\* high-confidence exactly when its confidence is above 0.8 and
\* medium-confidence otherwise; a confidence of exactly 0.8 is medium.
C11_HighBadgeAboveThreshold ==
    (resultDisplay.kind = "result-success" /\ resultDisplay.badge # "ai-badge")
    => /\ resultDisplay.badge \in {"high-confidence", "medium-confidence"}
       /\ resultDisplay.badge = "high-confidence" <=> resultDisplay.conf > 80

\* a model result of confidence exactly 0.8 is shown, styled medium
C11_Witness ==
    /\ lastOp = "detectResponse"
    /\ resultDisplay.kind = "result-success"
    /\ resultDisplay.conf = 80
    /\ resultDisplay.badge = "medium-confidence"

\* C12: the crop-recommendation button goes from disabled to enabled only in
\* a step of getWeather or of the position callback that ends with the fetched
\* weather on display and the temperature, humidity and rainfall inputs
\* written from it; a step that ends with an error on the weather display
\* (failure envelope, fetch exception, denied geolocation, displayWeather
\* throwing part-way) leaves the button as it was.
C12_CropButtonOnlyAfterWeatherShown ==
    [][/\ (cropBtnDisabled /\ ~cropBtnDisabled')
            => /\ lastOp' \in {"weatherResponse", "geocodeFetched"}
               /\ weatherDisplay'.kind = "cards"
               /\ temperature' = ToString(weatherDisplay'.cards[1][2])
               /\ humidity' = ToString(weatherDisplay'.cards[2][2])
               /\ rainfall' # ""
       /\ weatherDisplay'.kind = "error" => cropBtnDisabled' = cropBtnDisabled]_vars

\* getWeather has shown a snapshot without a daily precipitation sum: the
\* three inputs are written (rainfall as 0) and the button is enabled
C12_Witness ==
    /\ lastOp = "weatherResponse"
    /\ ~cropBtnDisabled
    /\ weatherDisplay.kind = "cards"
    /\ temperature = "25" /\ humidity = "60" /\ rainfall = "0"

\* C13: stopCamera is idempotent: a second call right after a first leaves
\* cameraStream, the video source, the three camera buttons, the guide overlay
\* and the running streams as the first call left them; a call made while
\* cameraStream is null stops no tracks.
C13_StopCameraIdempotent ==
    [][lastOp' = "stopCamera" =>
         /\ cameraStream' = NoStream /\ videoSrc' = NoStream /\ guideText' = NoGuide
         /\ cameraStream = NoStream => liveStreams' = liveStreams
         /\ lastOp = "stopCamera" =>
                UNCHANGED <<cameraStream, videoSrc, cameraBtns, guideText, liveStreams>>]_vars

\* stopCamera was called twice in a row while no stream was active
C13_Witness ==
    /\ lastOp = "stopCamera"
    /\ lastArg = <<"stopCamera">>
    /\ cameraStream = NoStream /\ videoSrc = NoStream
    /\ cameraBtns = [start |-> "inline-block", capture |-> "none", stop |-> "none"]
    /\ guideText = NoGuide

\* C17: from a run of switchToUpload until startCamera is invoked again no
\* camera stream is live: cameraStream is null and no acquired stream has
\* running tracks, also when a startCamera call made before the switch was
\* still waiting for getUserMedia.
C17_NoLiveStreamAfterSwitchToUpload ==
    quietSinceSwitch => cameraStream = NoStream /\ liveStreams = {}

\* C19: when detectDisease is done with the answer to a request, whatever
\* the answer (success or failure envelope, an exception of fetch or json(),
\* an exception while the result is formatted), the spinner is hidden and the
\* result display holds a result block or an error block; and while no
\* detection request is in flight the spinner is hidden.
C19_SpinnerHiddenAndBlockShown ==
    /\ lastOp = "detectResponse"
        => /\ loadingSpinner = "none"
           /\ resultDisplay.kind \in {"result-success", "result-error"}
    /\ detectInFlight = EmptyBag => loadingSpinner = "none"

\* the answer was a success envelope without disease_info: formatDiseaseInfo
\* threw, and the error block is shown with the spinner hidden
C19_Witness ==
    /\ lastOp = "detectResponse"
    /\ lastArg.data.kind = "ok" /\ ~lastArg.data.hasInfo
    /\ detectInFlight = EmptyBag
    /\ loadingSpinner = "none"
    /\ resultDisplay = DetectErrorHTML

\* C20: the step indicators follow the plant, image, result order in every
\* state: step 2 is marked completed, or step 3 active or completed, only
\* while step 1 is marked completed, that is while a plant is selected.
C20_StepsFollowLinearFlow ==
    ({<<2, "completed">>, <<3, "active">>, <<3, "completed">>} \cap stepClasses # {})
    => <<1, "completed">> \in stepClasses /\ Truthy(selectedPlant)

\* C14: when getWeather, detectDisease or getCropRecommendation is done with
\* an answer, a failure envelope has put the server's message on the
\* component's display and an exception of fetch or json() has put the
\* component's fixed error text there; handling an answer sends no request,
\* and a call sends at most one.
C14_MessageOnFailureGenericOnException ==
    [][/\ lastOp' = "detectResponse" =>
            /\ lastArg'.data.kind = "failure" =>
                    /\ resultDisplay'.kind = "result-error"
                    /\ resultDisplay'.heading = lastArg'.data.message
            /\ lastArg'.data.kind = "throw" =>
                    /\ resultDisplay'.kind = "result-error"
                    /\ resultDisplay'.message = "Failed to detect disease. Please try again."
       /\ lastOp' = "weatherResponse" =>
            /\ lastArg'.data.kind = "failure" =>
                    /\ weatherDisplay'.kind = "error"
                    /\ weatherDisplay'.message = lastArg'.data.message
            /\ lastArg'.data.kind = "throw" =>
                    /\ weatherDisplay'.kind = "error"
                    /\ weatherDisplay'.message = "Error fetching weather data. Please try again."
       /\ lastOp' = "cropResponse" =>
            /\ lastArg'.data.kind = "failure" =>
                    /\ cropDisplay'.kind = "error"
                    /\ cropDisplay'.message = lastArg'.data.message
            /\ lastArg'.data.kind = "throw" =>
                    /\ cropDisplay'.kind = "error"
                    /\ cropDisplay'.message = "Error getting recommendations."
       /\ LET sent == BagCardinality(detectInFlight) + BagCardinality(weatherInFlight)
                        + BagCardinality(cropInFlight)
              sentAfter == BagCardinality(detectInFlight') + BagCardinality(weatherInFlight')
                        + BagCardinality(cropInFlight')
          IN  IF lastOp' \in {"detectResponse", "weatherResponse", "cropResponse"}
              THEN sentAfter = sent - 1
              ELSE sentAfter \in {sent, sent + 1}]_vars

\* the three displays at once: detection shows its fixed text after an
\* exception, the weather display and the crop display show the message of a
\* failure envelope, and no request is left in flight
C14_Witness ==
    /\ lastOp = "cropResponse"
    /\ lastArg.data.kind = "failure"
    /\ cropDisplay = CropErrorHTML(lastArg.data.message)
    /\ weatherDisplay = WeatherErrorHTML(lastArg.data.message)
    /\ resultDisplay = DetectErrorHTML
    /\ detectInFlight = EmptyBag /\ weatherInFlight = EmptyBag /\ cropInFlight = EmptyBag

\* C15: a getCropRecommendation call sends a request only when the
\* temperature, humidity and rainfall inputs are all non-empty and a soil type
\* is selected, and then it does send one: a field that holds 0, as rainfall
\* does when the daily precipitation sum is absent or zero, counts as filled.
C15_CropRequestNeedsAllInputs ==
    [][lastOp' = "getCropRecommendation" =>
         LET filled == /\ temperature # "" /\ humidity # "" /\ rainfall # ""
                       /\ soilType # ""
         IN  IF filled
             THEN BagCardinality(cropInFlight') = BagCardinality(cropInFlight) + 1
             ELSE UNCHANGED <<cropInFlight, cropDisplay>>]_vars

\* a request went out with rainfall 0
C15_Witness ==
    /\ lastOp = "getCropRecommendation"
    /\ rainfall = "0"
    /\ \E r \in BagToSet(cropInFlight) : r.rainfall = 0 /\ r.soil_type = soilType
    /\ cropDisplay = CropInfoHTML("Loading recommendations...")

\* C18: a detectDisease or getWeather call whose guards pass sends its
\* request also while an earlier one is in flight, and whenever an answer has
\* been handled the shared display shows the content of that answer, whatever
\* it showed before: of two overlapping requests the answer handled last is
\* the one on display.
C18_LastResponseWins ==
    [][/\ (lastOp' = "detectDisease" /\ Truthy(selectedPlant) /\ selectedImage # NoImage)
            => BagCardinality(detectInFlight') = BagCardinality(detectInFlight) + 1
       /\ (lastOp' = "getWeather" /\ trim(cityInput) \notin {<<>>, LocationPlaceholder})
            => BagCardinality(weatherInFlight') = BagCardinality(weatherInFlight) + 1
       /\ lastOp' = "detectResponse" =>
            LET data == lastArg'.data
            IN  IF data.kind = "ok" /\ data.hasInfo
                THEN /\ resultDisplay'.kind = "result-success"
                     /\ resultDisplay'.conf = data.confidence
                     /\ resultDisplay'.disease = data.disease_name
                ELSE /\ resultDisplay'.kind = "result-error"
                     /\ data.kind = "failure" => resultDisplay'.heading = data.message
                     /\ data.kind # "failure" => resultDisplay'.heading = "Error"
       /\ lastOp' = "weatherResponse" =>
            LET data == lastArg'.data
            IN  IF data.kind = "ok" /\ data.weather.shape = "ok"
                THEN /\ weatherDisplay'.kind = "cards"
                     /\ weatherDisplay'.cards[1][2] = data.weather.temperature_2m
                ELSE /\ weatherDisplay'.kind = "error"
                     /\ data.kind = "failure" => weatherDisplay'.message = data.message
                     /\ data.kind # "failure"
                            => weatherDisplay'.message = WeatherFetchErrorMsg]_vars

\* two detection requests overlapped: the answer handled last, a failure
\* envelope, found the result of the other answer on display and replaced it
C18_Witness ==
    /\ lastOp = "detectResponse"
    /\ detectInFlight = EmptyBag
    /\ lastArg.found = "result-success"
    /\ lastArg.data.kind = "failure"
    /\ resultDisplay.kind = "result-error"
    /\ resultDisplay.heading = lastArg.data.message

\* C16: when logout is done with an answer, the page has navigated to the
\* site root if the answer is an envelope with success true; after any other
\* answer, or an exception of fetch or json(), the location and the state of
\* the page are as before; and nothing else navigates.
C16_LogoutNavigatesOnlyOnSuccess ==
    [][/\ lastOp' = "logoutResponse" =>
            IF lastArg'.kind = "envelope" /\ lastArg'.success = "true"
            THEN location' = "/"
            ELSE UNCHANGED <<location, wizardVars, cameraVars, detectVars,
                             weatherVars, cropVars, pageUnloaded>>
       /\ location' # location => lastOp' = "logoutResponse"]_vars

\* a success envelope has taken a page with an image selected to the root
C16_Witness ==
    /\ lastOp = "logoutResponse"
    /\ lastArg = [kind |-> "envelope", success |-> "true"]
    /\ location = "/"
    /\ selectedImage # NoImage
    /\ ~pageUnloaded

====
